---------------------------- MODULE Spec2Model ----------------------------
(***************************************************************************)
(* NUFS: a single-block-per-file FUSE file system kept in a block image.   *)
(* The image is modelled at cell granularity: one cell is one byte of a    *)
(* name or of file data, or one int (the inum of a directory entry).       *)
(* Block 0 (bitmaps, root slot) and the inode table are kept as typed      *)
(* variables; every block's bytes live in the flat array img, so that a    *)
(* directory block and a file block are two views of the same cells.       *)
(* The geometry (blocks, inodes, name width, entries per block) is scaled  *)
(* down; the layout rules are the source's.                                *)
(***************************************************************************)
EXTENDS Integers, Sequences, FiniteSets, TLC

\* ------------------------------------------------------------ geometry
\* scaled geometry of the image: blocks in the image, inodes in the table,
\* width of a name, directory entries that fit a block
BLOCK_COUNT == 9
INODE_COUNT == 5
DIR_NAME_LENGTH == 3
DirSlots == 5

\* sizeof(dir_entry_t): name[DIR_NAME_LENGTH] followed by one int cell
DirEntSize == DIR_NAME_LENGTH + 1
BLOCK_SIZE == DirSlots * DirEntSize
ImgSize == BLOCK_COUNT * BLOCK_SIZE
\* sizeof(inode_t) in cells, one per field
InodeSize == 8
\* the inode table starts at block 1
INODE_TABLE_START == 1
INODES_PER_BLOCK == BLOCK_SIZE \div InodeSize
InodeTableBlocks == (INODE_COUNT + INODES_PER_BLOCK - 1) \div INODES_PER_BLOCK
\* entries storage_init gives the root in its size field
RootInitEntries == 5

\* ------------------------------------------------------------ errno, modes
ENOENT == 2
EEXIST == 17
ENOTDIR == 20
EISDIR == 21
EINVAL == 22
ENOSPC == 28
ENOTEMPTY == 39

S_IFMT == 61440
S_IFDIR == 16384
S_IFREG == 32768
DirMode == S_IFDIR + 493
RegMode == S_IFREG + 420

S_ISDIR(m) == (m \div 4096) % 16 = 4
S_ISREG(m) == (m \div 4096) % 16 = 8

\* ------------------------------------------------------------ characters, names, paths
\* characters are their ASCII codes; '\0' ends a string
NUL == 0
DOT == 46

NameDot == <<DOT>>
NameDotDot == <<DOT, DOT>>
NameA == <<97>>
NameB == <<98>>
NameEmpty == <<>>

\* An absolute path is the sequence of the components between its slashes:
\* "/" is <<"">>, "/a/b" is <<"a","b">>, "/a/" is <<"a","">>.
RootPath == <<NameEmpty>>

Front(s) == SubSeq(s, 1, Len(s) - 1)
Last(s) == s[Len(s)]
Min(a, b) == IF a < b THEN a ELSE b

\* the split at the last '/' that every mutator performs
Basename(p) == Last(p)
ParentPath(p) == IF Front(p) = <<>> THEN RootPath ELSE Front(p)

\* ------------------------------------------------------------ the image as cells
\* blocks_get_block(b) + off, as a flat cell index; cells outside the
\* mapping read as 0 and writes to them are dropped
ByteAt(img, off) == IF off \in 0..(ImgSize - 1) THEN img[off] ELSE 0

ReadBytes(img, off, n) == [k \in 1..n |-> ByteAt(img, off + k - 1)]

WriteBytes(img, off, bytes) ==
  [o \in {c \in off..(off + Len(bytes) - 1) : c \in 0..(ImgSize - 1)} |->
     bytes[o - off + 1]] @@ img

ZeroBytes(n) == [k \in 1..n |-> 0]

\* the NUL-terminated string that starts at cell off, as strcmp reads it
RECURSIVE CStrAt(_, _)
CStrAt(img, off) ==
  IF ByteAt(img, off) = NUL \/ off >= ImgSize \/ off < 0 THEN <<>>
  ELSE <<ByteAt(img, off)>> \o CStrAt(img, off + 1)

\* strncpy(dst, src, n): n cells, src then NUL padding
Strncpy(src, n) == [k \in 1..n |-> IF k <= Len(src) THEN src[k] ELSE NUL]

\* ------------------------------------------------------------ state
VARIABLES
  bbm,     \* block bitmap: block number -> 0/1
  ibm,     \* inode bitmap: inode number -> 0/1
  inodes,  \* inode table: inode number -> inode_t
  img,     \* the cells of all blocks
  root,    \* the persisted root inode slot of block 0
  mounted, \* whether the last storage_init ran to its end
  calls,   \* number of calls the host has made so far
  thr,     \* the two host threads inside storage_mknod: position and locals
  serial   \* whether the host delivers one call at a time (fuse -s)

vars == <<bbm, ibm, inodes, img, root, mounted, calls, thr, serial>>

\* the image as one value, threaded through the operations
\* badfree is not part of the image: it records, within one call, that
\* free_block was handed an index that is no data block
Image ==
  [bbm |-> bbm, ibm |-> ibm, inodes |-> inodes, img |-> img, root |-> root,
   badfree |-> FALSE]

ZeroInode == [inum |-> 0, refs |-> 0, mode |-> 0, size |-> 0, block |-> 0]

Res(s, rv) == [s |-> s, rv |-> rv]

SetMin(S) == CHOOSE x \in S : \A y \in S : x <= y

\* ------------------------------------------------------------ block allocator
ReservedBlocks == 0..(INODE_TABLE_START + InodeTableBlocks - 1)
DataBlocks == (0..(BLOCK_COUNT - 1)) \ ReservedBlocks

\* first-fit over the block bitmap; -1 when every bit is set
alloc_block(s) ==
  LET free == {b \in 0..(BLOCK_COUNT - 1) : s.bbm[b] = 0} IN
  IF free = {} THEN Res(s, -1)
  ELSE Res([s EXCEPT !.bbm[SetMin(free)] = 1], SetMin(free))

\* What bitmap_put(bbm, -1, 0) can do: the byte index -1/8 is 0 and the bit
\* index -1%8 is negative, so the shift is undefined. A machine that masks the
\* shift count leaves the byte alone (ub = -1); a build that reduces the index
\* modulo the byte width clears the top bit of the byte, here (the bitmap
\* scaled to one byte) the bit of the last block.
UBChoices == {-1, BLOCK_COUNT - 1}

free_block(s, bnum, ub) ==
  LET t == [s EXCEPT !.badfree = @ \/ bnum \notin DataBlocks] IN
  IF bnum \in 0..(BLOCK_COUNT - 1) THEN [t EXCEPT !.bbm[bnum] = 0]
  ELSE IF ub = -1 THEN t
  ELSE [t EXCEPT !.bbm[ub] = 0]

\* ------------------------------------------------------------ inode allocator
ValidInum(n) == n \in 0..(INODE_COUNT - 1)

alloc_inode(s) ==
  LET free == {i \in 0..(INODE_COUNT - 1) : s.ibm[i] = 0} IN
  IF free = {} THEN Res(s, -1)
  ELSE LET i == SetMin(free) IN
       Res([s EXCEPT !.ibm[i] = 1,
                     !.inodes[i] = [ZeroInode EXCEPT !.inum = i, !.refs = 1]], i)

\* free_inode that frees the block but leaves the inode's bitmap bit set
free_inode_keepbit(s, inum, ub) ==
  IF s.inodes[inum].block # 0 THEN free_block(s, s.inodes[inum].block, ub)
  ELSE s

free_inode(s, inum, ub) ==
  LET s1 == [s EXCEPT !.ibm[inum] = 0] IN
  IF s1.inodes[inum].block # 0 THEN free_block(s1, s1.inodes[inum].block, ub)
  ELSE s1

\* ------------------------------------------------------------ directory module
\* &entries[i] of the directory inode d, as a cell index
EntryOff(s, d, i) == s.inodes[d].block * BLOCK_SIZE + i * DirEntSize
EntryName(s, d, i) == CStrAt(s.img, EntryOff(s, d, i))
EntryInum(s, d, i) == ByteAt(s.img, EntryOff(s, d, i) + DIR_NAME_LENGTH)
DirCount(s, d) == s.inodes[d].size \div DirEntSize

\* directory_lookup whose scan stops one slot short of count
directory_lookup_short(s, d, name) ==
  LET hits == {i \in 0..(DirCount(s, d) - 2) : EntryName(s, d, i) = name} IN
  IF hits = {} THEN -ENOENT ELSE EntryInum(s, d, SetMin(hits))

directory_lookup(s, d, name) ==
  LET hits == {i \in 0..(DirCount(s, d) - 1) : EntryName(s, d, i) = name} IN
  IF hits = {} THEN -ENOENT ELSE EntryInum(s, d, SetMin(hits))

\* the cells directory_put stores: name cut to DIR_NAME_LENGTH - 1, NUL, inum
PutCells(name, inum) == Strncpy(name, DIR_NAME_LENGTH - 1) \o <<NUL>> \o <<inum>>

directory_put(s, d, name, inum) ==
  IF ~ValidInum(d) \/ ~S_ISDIR(s.inodes[d].mode) THEN Res(s, -ENOTDIR)
  ELSE
    LET count == DirCount(s, d)
        holes == {i \in 0..(count - 1) : ByteAt(s.img, EntryOff(s, d, i)) = NUL}
    IN
    IF holes # {} THEN
      Res([s EXCEPT !.img = WriteBytes(s.img, EntryOff(s, d, SetMin(holes)),
                                       PutCells(name, inum))], 0)
    ELSE IF count >= BLOCK_SIZE \div DirEntSize THEN Res(s, -ENOSPC)
    ELSE
      Res([s EXCEPT !.img = WriteBytes(s.img, EntryOff(s, d, count), PutCells(name, inum)),
                    !.inodes[d].size = @ + DirEntSize], 0)

\* clear the matched name, close the gap, zero the last slot, shrink by one entry
RemoveEntry(s, d, i, count) ==
  LET cleared == WriteBytes(s.img, EntryOff(s, d, i), ZeroBytes(DIR_NAME_LENGTH))
      moved == IF i < count - 1
               THEN WriteBytes(cleared, EntryOff(s, d, i),
                               ReadBytes(cleared, EntryOff(s, d, i + 1),
                                         (count - i - 1) * DirEntSize))
               ELSE cleared
      zeroed == WriteBytes(moved, EntryOff(s, d, count - 1), ZeroBytes(DirEntSize))
  IN [s EXCEPT !.img = zeroed, !.inodes[d].size = @ - DirEntSize]

\* directory_delete that leaves the size field as it was
directory_delete_nosize(s, d, name) ==
  IF ~ValidInum(d) THEN Res(s, -EINVAL)
  ELSE IF ~S_ISDIR(s.inodes[d].mode) THEN Res(s, -ENOTDIR)
  ELSE
    LET count == DirCount(s, d)
        hits == {i \in 0..(count - 1) :
                   ByteAt(s.img, EntryOff(s, d, i)) # NUL /\ EntryName(s, d, i) = name}
    IN
    IF hits = {} THEN Res(s, -ENOENT)
    ELSE Res([RemoveEntry(s, d, SetMin(hits), count) EXCEPT !.inodes[d].size = s.inodes[d].size], 0)

directory_delete(s, d, name) ==
  IF ~ValidInum(d) THEN Res(s, -EINVAL)
  ELSE IF ~S_ISDIR(s.inodes[d].mode) THEN Res(s, -ENOTDIR)
  ELSE
    LET count == DirCount(s, d)
        hits == {i \in 0..(count - 1) :
                   ByteAt(s.img, EntryOff(s, d, i)) # NUL /\ EntryName(s, d, i) = name}
    IN
    IF hits = {} THEN Res(s, -ENOENT)
    ELSE Res(RemoveEntry(s, d, SetMin(hits), count), 0)

\* ------------------------------------------------------------ path resolution
NonEmpty(c) == c # <<>>

\* the loop of storage_lookup_path with the name looked up before the
\* S_ISDIR test of the current inode
RECURSIVE Walk_lookupfirst(_, _, _)
Walk_lookupfirst(s, cur, comps) ==
  IF comps = <<>> THEN cur
  ELSE IF ~ValidInum(cur) THEN -ENOTDIR
  ELSE LET next == directory_lookup(s, cur, Head(comps)) IN
       IF next < 0 THEN -ENOENT
       ELSE IF ~S_ISDIR(s.inodes[cur].mode) THEN -ENOTDIR
       ELSE Walk_lookupfirst(s, next, Tail(comps))

\* the loop of storage_lookup_path over the strtok_r components
RECURSIVE Walk(_, _, _)
Walk(s, cur, comps) ==
  IF comps = <<>> THEN cur
  ELSE IF ~ValidInum(cur) \/ ~S_ISDIR(s.inodes[cur].mode) THEN -ENOTDIR
  ELSE LET next == directory_lookup(s, cur, Head(comps)) IN
       IF next < 0 THEN -ENOENT ELSE Walk(s, next, Tail(comps))

storage_lookup_path(s, path) ==
  IF path = RootPath THEN 0 ELSE Walk(s, 0, SelectSeq(path, NonEmpty))

\* ------------------------------------------------------------ creation
storage_mknod(s, path, mode, ub) ==
  LET filename == Basename(path)
      parent_inum == storage_lookup_path(s, ParentPath(path))
  IN
  IF parent_inum < 0 THEN Res(s, parent_inum)
  ELSE IF ~ValidInum(parent_inum) \/ ~S_ISDIR(s.inodes[parent_inum].mode)
  THEN Res(s, -ENOTDIR)
  ELSE IF directory_lookup(s, parent_inum, filename) >= 0 THEN Res(s, -EEXIST)
  ELSE
    LET ai == alloc_inode(s) IN
    IF ai.rv < 0 THEN Res(s, -ENOSPC)
    ELSE
      LET inum == ai.rv
          ab == alloc_block([ai.s EXCEPT !.inodes[inum].mode = mode,
                                         !.inodes[inum].size = 0])
          s2 == [ab.s EXCEPT !.inodes[inum].block = ab.rv]
      IN
      IF ab.rv < 0 THEN Res(free_inode(s2, inum, ub), -ENOSPC)
      ELSE
        LET put == directory_put(s2, parent_inum, filename, inum) IN
        IF put.rv < 0
        THEN Res(free_inode(free_block(put.s, put.s.inodes[inum].block, ub), inum, ub),
                 put.rv)
        ELSE Res(put.s, 0)

\* memset of the new block, then "." and ".." with strncpy over the whole name
DirInitCells(inum, parent_inum) ==
  Strncpy(NameDot, DIR_NAME_LENGTH) \o <<inum>> \o
  Strncpy(NameDotDot, DIR_NAME_LENGTH) \o <<parent_inum>> \o
  ZeroBytes(BLOCK_SIZE - 2 * DirEntSize)

storage_mkdir_at(s, parent_inum, name, mode, ub) ==
  IF ~ValidInum(parent_inum) \/ ~S_ISDIR(s.inodes[parent_inum].mode)
  THEN Res(s, -ENOTDIR)
  ELSE IF directory_lookup(s, parent_inum, name) >= 0 THEN Res(s, -EEXIST)
  ELSE
    LET ai == alloc_inode(s) IN
    IF ai.rv < 0 THEN Res(s, -ENOSPC)
    ELSE
      LET inum == ai.rv
          ab == alloc_block([ai.s EXCEPT !.inodes[inum].mode = S_IFDIR + (mode % 512),
                                         !.inodes[inum].size = 0])
          s2 == [ab.s EXCEPT !.inodes[inum].block = ab.rv]
      IN
      IF ab.rv < 0 THEN Res(free_inode(s2, inum, ub), -ENOSPC)
      ELSE
        LET s3 == [s2 EXCEPT !.img = WriteBytes(s2.img, ab.rv * BLOCK_SIZE,
                                                DirInitCells(inum, parent_inum)),
                             !.inodes[inum].size = 2 * DirEntSize]
        IN directory_put(s3, parent_inum, name, inum)

nufs_mkdir(s, path, mode, ub) ==
  IF path = RootPath THEN Res(s, -EEXIST)
  ELSE IF Basename(path) = <<>> THEN Res(s, -EINVAL)
  ELSE
    LET parent_inum == storage_lookup_path(s, ParentPath(path)) IN
    IF parent_inum < 0 THEN Res(s, parent_inum)
    ELSE storage_mkdir_at(s, parent_inum, Basename(path), mode, ub)

\* ------------------------------------------------------------ write, read, truncate
CeilBlocks(n) == (n + BLOCK_SIZE - 1) \div BLOCK_SIZE

\* the allocation loop of storage_write for i = from .. required - 1
RECURSIVE WriteAlloc(_, _, _, _)
WriteAlloc(s, inum, i, required) ==
  IF i >= required THEN Res(s, 0)
  ELSE LET ab == alloc_block(s) IN
       IF ab.rv < 0 THEN Res(s, -ENOSPC)
       ELSE WriteAlloc(IF i = 0 THEN [ab.s EXCEPT !.inodes[inum].block = ab.rv] ELSE ab.s,
                       inum, i + 1, required)

\* storage_write without the update of the size field
storage_write_nosize(s, path, buf, offset) ==
  LET inum == storage_lookup_path(s, path)
      size == Len(buf)
  IN
  IF inum < 0 THEN Res(s, -ENOENT)
  ELSE IF ~ValidInum(inum) \/ ~S_ISREG(s.inodes[inum].mode) THEN Res(s, -EISDIR)
  ELSE
    LET grown == WriteAlloc(s, inum, CeilBlocks(s.inodes[inum].size),
                            CeilBlocks(offset + size))
    IN
    IF grown.rv < 0 THEN grown
    ELSE Res([grown.s EXCEPT !.img = WriteBytes(grown.s.img,
                 grown.s.inodes[inum].block * BLOCK_SIZE + offset, buf)], size)

storage_write(s, path, buf, offset) ==
  LET inum == storage_lookup_path(s, path)
      size == Len(buf)
  IN
  IF inum < 0 THEN Res(s, -ENOENT)
  ELSE IF ~ValidInum(inum) \/ ~S_ISREG(s.inodes[inum].mode) THEN Res(s, -EISDIR)
  ELSE
    LET grown == WriteAlloc(s, inum, CeilBlocks(s.inodes[inum].size),
                            CeilBlocks(offset + size))
    IN
    IF grown.rv < 0 THEN grown
    ELSE
      LET s1 == grown.s
          s2 == [s1 EXCEPT !.img = WriteBytes(s1.img,
                                              s1.inodes[inum].block * BLOCK_SIZE + offset, buf)]
      IN
      Res(IF offset + size > s2.inodes[inum].size
          THEN [s2 EXCEPT !.inodes[inum].size = offset + size] ELSE s2,
          size)

\* rv and the bytes copied to the caller's buffer
nufs_read(s, path, size, offset) ==
  LET inum == storage_lookup_path(s, path) IN
  IF inum < 0 THEN [rv |-> -ENOENT, data |-> <<>>]
  ELSE IF ~ValidInum(inum) \/ ~S_ISREG(s.inodes[inum].mode)
  THEN [rv |-> -EISDIR, data |-> <<>>]
  ELSE IF offset >= s.inodes[inum].size THEN [rv |-> 0, data |-> <<>>]
  ELSE
    LET n == IF offset + size > s.inodes[inum].size
             THEN s.inodes[inum].size - offset ELSE size
    IN [rv |-> n,
        data |-> ReadBytes(s.img, s.inodes[inum].block * BLOCK_SIZE + offset, n)]

\* the stat fields nufs_getattr fills in, with its return value
nufs_getattr(s, path) ==
  LET inum == storage_lookup_path(s, path) IN
  IF inum < 0 \/ ~ValidInum(inum)
  THEN [rv |-> -ENOENT, mode |-> 0, size |-> 0, nlink |-> 0, ino |-> 0]
  ELSE
    LET node == s.inodes[inum]
        subdirs == {i \in 0..(DirCount(s, inum) - 1) :
                      /\ EntryName(s, inum, i) # NameDot
                      /\ EntryName(s, inum, i) # NameDotDot
                      /\ ValidInum(EntryInum(s, inum, i))
                      /\ S_ISDIR(s.inodes[EntryInum(s, inum, i)].mode)}
    IN [rv |-> 0, mode |-> node.mode, size |-> node.size,
        nlink |-> IF S_ISDIR(node.mode) THEN 2 + Cardinality(subdirs) ELSE 1,
        ino |-> inum]

\* the names the loop of nufs_readdir hands to filler from slot i on
RECURSIVE ReaddirFrom(_, _, _, _)
ReaddirFrom(s, path, d, i) ==
  IF i >= DirCount(s, d) THEN <<>>
  ELSE
    LET name == EntryName(s, d, i)
        emit == /\ ByteAt(s.img, EntryOff(s, d, i)) # NUL
                /\ name # NameDot
                /\ name # NameDotDot
                /\ nufs_getattr(s, path \o <<name>>).rv = 0
    IN (IF emit THEN <<name>> ELSE <<>>) \o ReaddirFrom(s, path, d, i + 1)

\* rv and the names handed to filler, in order
nufs_readdir(s, path) ==
  LET inum == storage_lookup_path(s, path) IN
  IF inum < 0 THEN [rv |-> -ENOENT, names |-> <<>>]
  ELSE IF ~ValidInum(inum) \/ ~S_ISDIR(s.inodes[inum].mode)
  THEN [rv |-> -ENOTDIR, names |-> <<>>]
  ELSE [rv |-> 0, names |-> <<NameDot, NameDotDot>> \o ReaddirFrom(s, path, inum, 0)]

nufs_truncate(s, path, size) ==
  LET inum == storage_lookup_path(s, path) IN
  IF inum < 0 \/ ~ValidInum(inum) THEN Res(s, -ENOENT)
  ELSE Res([s EXCEPT !.inodes[inum].size = size], 0)

\* ------------------------------------------------------------ removal
nufs_unlink(s, path, ub) ==
  LET filename == Basename(path)
      parent_inum == storage_lookup_path(s, ParentPath(path))
  IN
  IF parent_inum < 0 THEN Res(s, parent_inum)
  ELSE IF ~ValidInum(parent_inum) \/ ~S_ISDIR(s.inodes[parent_inum].mode)
  THEN Res(s, -ENOTDIR)
  ELSE
    LET file_inum == directory_lookup(s, parent_inum, filename) IN
    IF file_inum < 0 THEN Res(s, file_inum)
    ELSE IF ~ValidInum(file_inum) THEN Res(s, -ENOENT)
    ELSE IF S_ISDIR(s.inodes[file_inum].mode) THEN Res(s, -EISDIR)
    ELSE
      LET count == DirCount(s, parent_inum)
          hits == {i \in 0..(count - 1) : EntryName(s, parent_inum, i) = filename}
      IN
      IF hits = {} THEN Res(s, -ENOENT)
      ELSE
        LET s1 == RemoveEntry(s, parent_inum, SetMin(hits), count)
            s2 == IF s1.inodes[file_inum].block >= 0
                  THEN free_block(s1, s1.inodes[file_inum].block, ub) ELSE s1
        IN Res(free_inode(s2, file_inum, ub), 0)

\* entries other than ".", ".." and cleared slots
DirHasChild(s, d) ==
  \E i \in 0..(DirCount(s, d) - 1) :
     /\ ByteAt(s.img, EntryOff(s, d, i)) # NUL
     /\ EntryName(s, d, i) # NameDot
     /\ EntryName(s, d, i) # NameDotDot

nufs_rmdir(s, path, ub) ==
  LET dir_inum == storage_lookup_path(s, path) IN
  IF dir_inum < 0 THEN Res(s, dir_inum)
  ELSE IF ~ValidInum(dir_inum) \/ ~S_ISDIR(s.inodes[dir_inum].mode) THEN Res(s, -ENOTDIR)
  ELSE IF DirHasChild(s, dir_inum) THEN Res(s, -ENOTEMPTY)
  ELSE
    LET name_buf == SubSeq(Basename(path), 1, Min(Len(Basename(path)), DIR_NAME_LENGTH - 1))
        parent_inum == storage_lookup_path(s, ParentPath(path))
    IN
    IF parent_inum < 0 THEN Res(s, parent_inum)
    ELSE IF ~ValidInum(parent_inum) \/ ~S_ISDIR(s.inodes[parent_inum].mode)
    THEN Res(s, -ENOTDIR)
    ELSE
      LET count == DirCount(s, parent_inum)
          hits == {i \in 0..(count - 1) : EntryName(s, parent_inum, i) = name_buf}
      IN
      IF hits = {} THEN Res(s, -ENOENT)
      ELSE
        LET s1 == RemoveEntry(s, parent_inum, SetMin(hits), count)
            s2 == free_block(s1, s1.inodes[dir_inum].block, ub)
        IN Res(free_inode(s2, dir_inum, ub), 0)

\* the images a successful nufs_unlink passes through, statement by
\* statement: entry removed, free_block(node->block), then inside free_inode
\* the bitmap bit cleared and the block freed again
UnlinkTrace(s, path, ub) ==
  LET parent_inum == storage_lookup_path(s, ParentPath(path))
      file_inum == directory_lookup(s, parent_inum, Basename(path))
      count == DirCount(s, parent_inum)
      hits == {i \in 0..(count - 1) : EntryName(s, parent_inum, i) = Basename(path)}
      s1 == RemoveEntry(s, parent_inum, SetMin(hits), count)
      s2 == IF s1.inodes[file_inum].block >= 0
            THEN free_block(s1, s1.inodes[file_inum].block, ub) ELSE s1
      s3 == [s2 EXCEPT !.ibm[file_inum] = 0]
  IN <<s1, s2, s3, free_inode(s2, file_inum, ub)>>

\* the same for a successful nufs_rmdir
RmdirTrace(s, path, ub) ==
  LET dir_inum == storage_lookup_path(s, path)
      name_buf == SubSeq(Basename(path), 1, Min(Len(Basename(path)), DIR_NAME_LENGTH - 1))
      parent_inum == storage_lookup_path(s, ParentPath(path))
      count == DirCount(s, parent_inum)
      hits == {i \in 0..(count - 1) : EntryName(s, parent_inum, i) = name_buf}
      s1 == RemoveEntry(s, parent_inum, SetMin(hits), count)
      s2 == free_block(s1, s1.inodes[dir_inum].block, ub)
      s3 == [s2 EXCEPT !.ibm[dir_inum] = 0]
  IN <<s1, s2, s3, free_inode(s2, dir_inum, ub)>>

\* ------------------------------------------------------------ rename
nufs_rename(s, from, to) ==
  LET from_inum == storage_lookup_path(s, from) IN
  IF from_inum < 0 THEN Res(s, from_inum)
  ELSE
    LET from_parent == storage_lookup_path(s, ParentPath(from))
        to_parent == storage_lookup_path(s, ParentPath(to))
    IN
    IF from_parent < 0 \/ to_parent < 0 THEN Res(s, -ENOENT)
    ELSE
      LET put == directory_put(s, to_parent, Basename(to), from_inum) IN
      IF put.rv < 0 THEN Res(s, put.rv)
      ELSE
        LET del == directory_delete(put.s, from_parent, Basename(from)) IN
        IF del.rv < 0
        THEN Res(directory_delete(put.s, to_parent, Basename(to)).s, del.rv)
        ELSE Res(del.s, 0)

\* the images a nufs_rename whose directory_put succeeded passes through:
\* after the insert, after the delete and, when the delete failed, after the
\* insert was undone
RenameTrace(s, from, to) ==
  LET from_inum == storage_lookup_path(s, from)
      from_parent == storage_lookup_path(s, ParentPath(from))
      to_parent == storage_lookup_path(s, ParentPath(to))
      put == directory_put(s, to_parent, Basename(to), from_inum)
      del == directory_delete(put.s, from_parent, Basename(from))
  IN IF del.rv < 0
     THEN <<put.s, del.s, directory_delete(put.s, to_parent, Basename(to)).s>>
     ELSE <<put.s, del.s>>

\* ------------------------------------------------------------ mount
\* rv 0: mounted; rv -1: the process died inside storage_init
storage_init(s) ==
  LET root_inum == s.root IN
  IF root_inum <= 0 \/ ~ValidInum(root_inum) \/ ~S_ISDIR(s.inodes[root_inum].mode)
  THEN
    LET ai == alloc_inode(s) IN
    IF ai.rv < 0 THEN Res(s, -1)
    ELSE
      LET r == ai.rv
          ab == alloc_block([ai.s EXCEPT !.inodes[r].mode = DirMode])
          s2 == [ab.s EXCEPT !.inodes[r].block = ab.rv,
                             !.inodes[r].size = RootInitEntries * DirEntSize]
      IN
      IF ab.rv < 0 THEN Res(s2, -1)
      ELSE Res([s2 EXCEPT !.img = WriteBytes(s2.img, ab.rv * BLOCK_SIZE,
                                             <<DOT>> \o ZeroBytes(DIR_NAME_LENGTH - 1) \o <<r>> \o
                                             <<DOT, DOT>> \o ZeroBytes(DIR_NAME_LENGTH - 2) \o <<r>> \o
                                             ZeroBytes(BLOCK_SIZE - 2 * DirEntSize)),
                          !.root = r], 0)
  ELSE Res(s, 0)

\* the image blocks_init makes of a new file: zeros, header and inode-table
\* blocks reserved
FreshImage ==
  [bbm |-> [b \in 0..(BLOCK_COUNT - 1) |-> IF b \in ReservedBlocks THEN 1 ELSE 0],
   ibm |-> [i \in 0..(INODE_COUNT - 1) |-> 0],
   inodes |-> [i \in 0..(INODE_COUNT - 1) |-> ZeroInode],
   img |-> [o \in 0..(ImgSize - 1) |-> 0],
   root |-> 0,
   badfree |-> FALSE]

\* ------------------------------------------------------------ calls of the host
\* arguments the host callbacks are exercised with
PathSet == {RootPath, <<NameA>>, <<NameB>>, <<NameA, NameB>>}
\* "hi", and bytes that read as a directory entry: a name and an int that is
\* no inode number
EntryBytes == Strncpy(<<104, 105>>, DIR_NAME_LENGTH) \o <<INODE_COUNT + 2>>
BufSet == {<<104, 105>>, EntryBytes}
OffsetSet == {0, BLOCK_SIZE - 1}
TruncSizes == {0, 2 * BLOCK_SIZE}
ReadSizes == {2}

\* the longest call sequence explored
MaxCalls == 4

\* the number of host threads that may be inside a call at the same time
MaxThreads == 2

Threads == 1..MaxThreads

\* a thread that is in no call: its locals hold nothing
IdleThread ==
  [pc |-> "idle", path |-> <<>>, parent |-> -1, inum |-> -1, block |-> -1,
   slot |-> -1, append |-> FALSE, rv |-> 1]

Apply(s) ==
  /\ calls < MaxCalls
  /\ calls' = calls + 1
  /\ bbm' = s.bbm
  /\ ibm' = s.ibm
  /\ inodes' = s.inodes
  /\ img' = s.img
  /\ root' = s.root
  /\ UNCHANGED <<thr, serial>>

Init ==
  /\ bbm = storage_init(FreshImage).s.bbm
  /\ ibm = storage_init(FreshImage).s.ibm
  /\ inodes = storage_init(FreshImage).s.inodes
  /\ img = storage_init(FreshImage).s.img
  /\ root = storage_init(FreshImage).s.root
  /\ mounted = TRUE
  /\ calls = 0
  /\ thr = [t \in Threads |-> IdleThread]
  /\ serial = TRUE

Mknod(p, ub) ==
  /\ mounted
  /\ Apply(storage_mknod(Image, p, RegMode, ub).s)
  /\ UNCHANGED mounted

Mkdir(p, ub) ==
  /\ mounted
  /\ Apply(nufs_mkdir(Image, p, 493, ub).s)
  /\ UNCHANGED mounted

Write(p, buf, off) ==
  /\ mounted
  /\ Apply(storage_write(Image, p, buf, off).s)
  /\ UNCHANGED mounted

Read(p, size, off) ==
  /\ mounted
  /\ Apply(Image)
  /\ UNCHANGED mounted

Getattr(p) ==
  /\ mounted
  /\ Apply(Image)
  /\ UNCHANGED mounted

Readdir(p) ==
  /\ mounted
  /\ Apply(Image)
  /\ UNCHANGED mounted

Truncate(p, size) ==
  /\ mounted
  /\ Apply(nufs_truncate(Image, p, size).s)
  /\ UNCHANGED mounted

Unlink(p, ub) ==
  /\ mounted
  /\ Apply(nufs_unlink(Image, p, ub).s)
  /\ UNCHANGED mounted

Rmdir(p, ub) ==
  /\ mounted
  /\ Apply(nufs_rmdir(Image, p, ub).s)
  /\ UNCHANGED mounted

Rename(from, to) ==
  /\ mounted
  /\ Apply(nufs_rename(Image, from, to).s)
  /\ UNCHANGED mounted

\* the process exits and main runs storage_init on the same image again
Remount ==
  /\ Apply(storage_init(Image).s)
  /\ mounted' = (storage_init(Image).rv = 0)

Next ==
  \/ \E p \in PathSet, ub \in UBChoices : Mknod(p, ub)
  \/ \E p \in PathSet, ub \in UBChoices : Mkdir(p, ub)
  \/ \E p \in PathSet, buf \in BufSet, off \in OffsetSet : Write(p, buf, off)
  \/ \E p \in PathSet, n \in ReadSizes, off \in OffsetSet : Read(p, n, off)
  \/ \E p \in PathSet : Getattr(p)
  \/ \E p \in PathSet : Readdir(p)
  \/ \E p \in PathSet, n \in TruncSizes : Truncate(p, n)
  \/ \E p \in PathSet, ub \in UBChoices : Unlink(p, ub)
  \/ \E p \in PathSet, ub \in UBChoices : Rmdir(p, ub)
  \/ \E f \in PathSet, t \in PathSet : Rename(f, t)
  \/ Remount

Spec == Init /\ [][Next]_vars

\* the same calls, kept only when they return success
MknodOk(p, ub) == storage_mknod(Image, p, RegMode, ub).rv = 0 /\ Mknod(p, ub)
MkdirOk(p, ub) == nufs_mkdir(Image, p, 493, ub).rv = 0 /\ Mkdir(p, ub)
WriteOk(p, buf, off) == storage_write(Image, p, buf, off).rv = Len(buf) /\ Write(p, buf, off)
TruncateOk(p, size) == nufs_truncate(Image, p, size).rv = 0 /\ Truncate(p, size)
UnlinkOk(p, ub) == nufs_unlink(Image, p, ub).rv = 0 /\ Unlink(p, ub)
RmdirOk(p, ub) == nufs_rmdir(Image, p, ub).rv = 0 /\ Rmdir(p, ub)
RenameOk(from, to) == nufs_rename(Image, from, to).rv = 0 /\ Rename(from, to)
ReadOk(p, size, off) == nufs_read(Image, p, size, off).rv >= 0 /\ Read(p, size, off)
GetattrOk(p) == nufs_getattr(Image, p).rv = 0 /\ Getattr(p)
ReaddirOk(p) == nufs_readdir(Image, p).rv = 0 /\ Readdir(p)
RemountOk == storage_init(Image).rv = 0 /\ Remount

NextOk ==
  \/ \E p \in PathSet, ub \in UBChoices : MknodOk(p, ub)
  \/ \E p \in PathSet, ub \in UBChoices : MkdirOk(p, ub)
  \/ \E p \in PathSet, buf \in BufSet, off \in OffsetSet : WriteOk(p, buf, off)
  \/ \E p \in PathSet, n \in ReadSizes, off \in OffsetSet : ReadOk(p, n, off)
  \/ \E p \in PathSet : GetattrOk(p)
  \/ \E p \in PathSet : ReaddirOk(p)
  \/ \E p \in PathSet, n \in TruncSizes : TruncateOk(p, n)
  \/ \E p \in PathSet, ub \in UBChoices : UnlinkOk(p, ub)
  \/ \E p \in PathSet, ub \in UBChoices : RmdirOk(p, ub)
  \/ \E f \in PathSet, t \in PathSet : RenameOk(f, t)
  \/ RemountOk

\* every call returns success
SpecOk == Init /\ [][NextOk]_vars

\* creation and removal of four names in the root, one more than the three
\* entries the root has room for
FillPaths == {<<NameA>>, <<NameB>>, <<<<99>>>>, <<<<100>>>>}

NextCreate ==
  \/ \E p \in FillPaths, ub \in UBChoices : Mknod(p, ub)
  \/ \E p \in FillPaths, ub \in UBChoices : Mkdir(p, ub)
  \/ \E p \in FillPaths, ub \in UBChoices : Unlink(p, ub)
  \/ \E p \in FillPaths, ub \in UBChoices : Rmdir(p, ub)

SpecCreate == Init /\ [][NextCreate]_vars

\* ------------------------------------------------------------ views used by the properties
Inums == 0..(INODE_COUNT - 1)
AllocDirs == {d \in Inums : ibm[d] = 1 /\ S_ISDIR(inodes[d].mode)}
LiveSlots(d) == {i \in 0..(DirCount(Image, d) - 1) : ByteAt(img, EntryOff(Image, d, i)) # NUL}
IsDotName(n) == n = NameDot \/ n = NameDotDot

\* some live entry other than "." and ".." of an allocated directory names n
Referenced(n) ==
  \E d \in AllocDirs : \E i \in LiveSlots(d) :
     ~IsDotName(EntryName(Image, d, i)) /\ EntryInum(Image, d, i) = n

\* C1: the inode bitmap bit of n is set iff n is the root or a live directory
\* entry references n.
C1_InodeBitmapFaithful ==
  \A n \in Inums : (ibm[n] = 1) <=> (n = root \/ Referenced(n))

\* C2: the block bitmap bit of b is set iff b is a reserved header/inode-table
\* block or the block field of an allocated inode.
C2_BlockBitmapFaithful ==
  \A b \in 0..(BLOCK_COUNT - 1) :
     (bbm[b] = 1) <=> (b \in ReservedBlocks \/ \E n \in Inums : ibm[n] = 1 /\ inodes[n].block = b)

\* C3: no directory holds two live entries with the same name.
C3_UniqueNames ==
  \A d \in AllocDirs : \A i, j \in LiveSlots(d) :
     i # j => EntryName(Image, d, i) # EntryName(Image, d, j)

\* C4: the first size/E slots of every directory are live entries (first name
\* byte not NUL) and the slot after them, if any, is all zeros.
C4_DirectoryPacking ==
  \A d \in AllocDirs :
     /\ \A i \in 0..(DirCount(Image, d) - 1) : ByteAt(img, EntryOff(Image, d, i)) # NUL
     /\ DirCount(Image, d) < DirSlots =>
          ReadBytes(img, EntryOff(Image, d, DirCount(Image, d)), DirEntSize) = ZeroBytes(DirEntSize)

\* C5: every directory reachable from the root has "." naming itself and ".."
\* naming the directory that contains it (the root for the root).
C5_SelfLinks ==
  \A p \in PathSet :
     LET d == storage_lookup_path(Image, p) IN
     (ValidInum(d) /\ S_ISDIR(inodes[d].mode)) =>
        /\ directory_lookup(Image, d, NameDot) = d
        /\ directory_lookup(Image, d, NameDotDot) = storage_lookup_path(Image, ParentPath(p))

\* q is p or one of the directories on the way to p
OnPath(q, p) == q # RootPath /\ Len(q) <= Len(p) /\ SubSeq(p, 1, Len(q)) = q

\* the step unlinks, removes or renames away p or a directory on the way to p
RemovesPath(p) ==
  \E q \in PathSet :
     /\ OnPath(q, p)
     /\ \/ \E ub \in UBChoices : Unlink(q, ub) \/ Rmdir(q, ub)
        \/ \E to \in PathSet : Rename(q, to)

IsRegularFile(s, p) ==
  LET n == storage_lookup_path(s, p) IN ValidInum(n) /\ S_ISREG(s.inodes[n].mode)

\* C6: a path that resolves to a file made by mknod keeps resolving to the
\* same inode across every call that does not unlink or rename away the path.
C6_PathRoundTrip ==
  [][\A p \in PathSet :
       (IsRegularFile(Image, p) /\ ~RemovesPath(p)) =>
          storage_lookup_path(Image', p) = storage_lookup_path(Image, p)]_vars

\* C7: a mknod or mkdir that returns an error leaves both bitmaps as they were.
C7_RollbackOnFailedCreation ==
  [][\A p \in PathSet \cup FillPaths, ub \in UBChoices :
       (\/ Mknod(p, ub) /\ storage_mknod(Image, p, RegMode, ub).rv < 0
        \/ Mkdir(p, ub) /\ nufs_mkdir(Image, p, 493, ub).rv < 0)
       => (bbm' = bbm /\ ibm' = ibm)]_vars

\* C8: the size of every directory inode is a positive multiple of the entry
\* width and at most the block size.
C8_DirectorySize ==
  \A d \in AllocDirs :
     /\ inodes[d].size > 0
     /\ inodes[d].size % DirEntSize = 0
     /\ inodes[d].size <= BLOCK_SIZE

\* C9: running init again allocates no inode and no block, keeps the persisted
\* root inode number and keeps every path resolving to the same inode.
C9_RemountReusesRoot ==
  [][Remount =>
       /\ ibm' = ibm
       /\ bbm' = bbm
       /\ root' = root
       /\ \A p \in PathSet : storage_lookup_path(Image', p) = storage_lookup_path(Image, p)]_vars

\* buffers, offsets and read lengths the round trip is tried with in every
\* reachable state: both ends of the block, and reads up to past the block
RoundTripBufs == {<<>>, <<104>>, <<104, 105>>, <<7, 0, 7>>}
RoundTripOffsets == {0, 1, 2, BLOCK_SIZE - 3, BLOCK_SIZE - 2, BLOCK_SIZE - 1, BLOCK_SIZE}
ReadLens(n) == {n, n + 1, BLOCK_SIZE, 2 * BLOCK_SIZE}

\* C10: a write inside the block that returns its size is read back unchanged
\* by a read of the same size at the same offset; on a file of size 0 a write
\* at offset 0 followed by a longer read returns exactly the bytes written.
C10_WriteReadRoundTrip ==
  \A p \in PathSet :
     LET n == storage_lookup_path(Image, p) IN
     (mounted /\ IsRegularFile(Image, p)) =>
        \A buf \in RoundTripBufs, off \in RoundTripOffsets :
           LET w == storage_write(Image, p, buf, off) IN
           (off + Len(buf) <= BLOCK_SIZE /\ w.rv = Len(buf)) =>
              /\ nufs_read(w.s, p, Len(buf), off) = [rv |-> Len(buf), data |-> buf]
              /\ (off = 0 /\ inodes[n].size = 0) =>
                    \A m \in ReadLens(Len(buf)) :
                       nufs_read(w.s, p, m, 0) = [rv |-> Len(buf), data |-> buf]

\* a file holds the bytes a write stored at offset 0 and reads them back
C10_Witness ==
  \E p \in PathSet :
     /\ IsRegularFile(Image, p)
     /\ inodes[storage_lookup_path(Image, p)].size = 2
     /\ nufs_read(Image, p, BLOCK_SIZE, 0) = [rv |-> 2, data |-> <<104, 105>>]

\* C11: after a rename(from, to) with from # to that returns 0, from no longer
\* resolves (ENOENT) and to resolves to the inode from resolved to before.
C11_RenamePostcondition ==
  [][\A from \in PathSet, to \in PathSet :
       (from # to /\ Rename(from, to) /\ nufs_rename(Image, from, to).rv = 0) =>
          /\ storage_lookup_path(Image', from) = -ENOENT
          /\ storage_lookup_path(Image', to) = storage_lookup_path(Image, from)]_vars

\* the block inode n owned in s is free in t
OwnedBlockClear(s, t, n) ==
  s.inodes[n].block \in 0..(BLOCK_COUNT - 1) => t.bbm[s.inodes[n].block] = 0

\* C12: after an unlink or rmdir of a path below the root returns 0, the path
\* resolves to ENOENT and the bitmap bits of the removed inode and of the
\* block it owned are clear.
C12_RemovalPostcondition ==
  [][\A p \in PathSet \ {RootPath}, ub \in UBChoices :
       LET n == storage_lookup_path(Image, p) IN
       (\/ Unlink(p, ub) /\ nufs_unlink(Image, p, ub).rv = 0
        \/ Rmdir(p, ub) /\ nufs_rmdir(Image, p, ub).rv = 0)
       => /\ storage_lookup_path(Image', p) = -ENOENT
          /\ ValidInum(n) => (ibm'[n] = 0 /\ OwnedBlockClear(Image, Image', n))]_vars

IsDirectory(s, p) ==
  LET n == storage_lookup_path(s, p) IN ValidInum(n) /\ S_ISDIR(s.inodes[n].mode)

\* directory d holds a live entry other than "." and ".."
HasOtherEntry(d) == \E i \in LiveSlots(d) : ~IsDotName(EntryName(Image, d, i))

\* C13: rmdir of a directory that holds an entry other than "." and ".."
\* returns ENOTEMPTY and changes nothing, and rmdir returns 0 only for a
\* directory without such an entry; unlink of a directory returns EISDIR and
\* rmdir of a regular file returns ENOTDIR, both changing nothing.
C13_RmdirEmptinessCheck ==
  [][\A p \in PathSet, ub \in UBChoices :
       LET d == storage_lookup_path(Image, p) IN
       /\ (Rmdir(p, ub) /\ IsDirectory(Image, p) /\ HasOtherEntry(d)) =>
             (nufs_rmdir(Image, p, ub).rv = -ENOTEMPTY /\ Image' = Image)
       /\ (Rmdir(p, ub) /\ IsDirectory(Image, p) /\ nufs_rmdir(Image, p, ub).rv = 0) =>
             ~HasOtherEntry(d)
       /\ (Unlink(p, ub) /\ IsDirectory(Image, p)) =>
             (nufs_unlink(Image, p, ub).rv = -EISDIR /\ Image' = Image)
       /\ (Rmdir(p, ub) /\ IsRegularFile(Image, p)) =>
             (nufs_rmdir(Image, p, ub).rv = -ENOTDIR /\ Image' = Image)]_vars

\* the parent of p resolves to a directory that holds a live entry named as
\* the last component of p
NamePresent(p) ==
  LET d == storage_lookup_path(Image, ParentPath(p)) IN
  /\ ValidInum(d)
  /\ S_ISDIR(inodes[d].mode)
  /\ \E i \in LiveSlots(d) : EntryName(Image, d, i) = Basename(p)

\* C14: mknod and mkdir of a path whose last component is already present in
\* the resolved parent directory return EEXIST and leave the bitmaps, the
\* inode table and every block as they were.
C14_EexistOnCreation ==
  \A p \in PathSet, ub \in UBChoices :
     NamePresent(p) =>
        /\ storage_mknod(Image, p, RegMode, ub) = Res(Image, -EEXIST)
        /\ nufs_mkdir(Image, p, 493, ub) = Res(Image, -EEXIST)

\* a name was created and a second creation of it is refused
C14_Witness ==
  /\ NamePresent(<<NameA, NameB>>)
  /\ storage_mknod(Image, <<NameA, NameB>>, RegMode, -1).rv = -EEXIST
  /\ nufs_mkdir(Image, <<NameA>>, 493, -1).rv = -EEXIST

\* number of live entries (first name byte not NUL) of directory d in image s
LiveCount(s, d) ==
  Cardinality({i \in 0..(DirCount(s, d) - 1) : ByteAt(s.img, EntryOff(s, d, i)) # NUL})

\* the parent directory of p holds DirSlots live entries and none is named as p
FullParent(p) ==
  /\ IsDirectory(Image, ParentPath(p))
  /\ LiveCount(Image, storage_lookup_path(Image, ParentPath(p))) = DirSlots
  /\ ~NamePresent(p)

\* C15: no directory holds more than DirSlots live entries; mknod of a new
\* name in a directory that holds DirSlots live entries returns ENOSPC, and
\* after unlink of one of its files the mknod succeeds and the directory
\* holds DirSlots live entries again.
C15_DirectoryCapacity ==
  /\ \A d \in AllocDirs : LiveCount(Image, d) <= DirSlots
  /\ \A p \in FillPaths, ub \in UBChoices :
        FullParent(p) =>
           /\ storage_mknod(Image, p, RegMode, ub).rv = -ENOSPC
           /\ \A q \in FillPaths :
                 (IsRegularFile(Image, q) /\ ParentPath(q) = ParentPath(p)) =>
                    LET u == nufs_unlink(Image, q, ub)
                        m == storage_mknod(u.s, p, RegMode, ub)
                    IN /\ u.rv = 0
                       /\ m.rv = 0
                       /\ LiveCount(m.s, storage_lookup_path(Image, ParentPath(p))) = DirSlots

\* every inode bitmap bit is set
InodesExhausted == \A n \in Inums : ibm[n] = 1

\* p names a new entry of a directory: its parent resolves to a directory
\* that holds no live entry named as p
CreatablePath(s, p) ==
  LET d == storage_lookup_path(s, ParentPath(p)) IN
  /\ p # RootPath
  /\ IsDirectory(s, ParentPath(p))
  /\ \A i \in 0..(DirCount(s, d) - 1) :
        ByteAt(s.img, EntryOff(s, d, i)) # NUL => EntryName(s, d, i) # Basename(p)

\* directory d has a cleared slot or room for one more entry in its block
HasFreeSlot(s, d) == DirCount(s, d) < DirSlots \/ LiveCount(s, d) < DirCount(s, d)

\* C16: with every inode bit set, mknod of a new name returns ENOSPC and
\* changes nothing; after unlink of a file, mknod (given a free block and a
\* free slot in the parent) succeeds and gets the inode number just freed.
C16_InodeExhaustion ==
  \A p \in PathSet \cup FillPaths, ub \in UBChoices :
     (InodesExhausted /\ CreatablePath(Image, p)) =>
        /\ storage_mknod(Image, p, RegMode, ub) = Res(Image, -ENOSPC)
        /\ \A q \in PathSet \cup FillPaths :
              LET n == storage_lookup_path(Image, q)
                  u == nufs_unlink(Image, q, ub)
                  m == storage_mknod(u.s, p, RegMode, ub)
              IN
              (/\ IsRegularFile(Image, q)
               /\ u.rv = 0
               /\ CreatablePath(u.s, p)
               /\ HasFreeSlot(u.s, storage_lookup_path(u.s, ParentPath(p)))
               /\ \E b \in DataBlocks : u.s.bbm[b] = 0)
              => (m.rv = 0 /\ storage_lookup_path(m.s, p) = n)

\* all inodes are taken, a new name is refused, and unlinking a file lets
\* the same mknod succeed
C16_Witness ==
  \E p \in PathSet \cup FillPaths, q \in PathSet \cup FillPaths :
     /\ InodesExhausted
     /\ CreatablePath(Image, p)
     /\ IsRegularFile(Image, q)
     /\ storage_mknod(Image, p, RegMode, -1).rv = -ENOSPC
     /\ nufs_unlink(Image, q, -1).rv = 0
     /\ storage_mknod(nufs_unlink(Image, q, -1).s, p, RegMode, -1).rv = 0

\* the cells of block b
BlockCells(b) == (b * BLOCK_SIZE)..(b * BLOCK_SIZE + BLOCK_SIZE - 1)

\* C17: a write to p changes no cell outside the block p's inode owns after
\* the write and no inode record other than p's, also when offset + size
\* is beyond the block.
C17_WriteConfined ==
  [][\A p \in PathSet, buf \in BufSet, off \in OffsetSet :
       LET n == storage_lookup_path(Image, p) IN
       (Write(p, buf, off) /\ IsRegularFile(Image, p)) =>
          /\ \A o \in (0..(ImgSize - 1)) \ BlockCells(inodes'[n].block) : img'[o] = img[o]
          /\ \A k \in Inums \ {n} : inodes'[k] = inodes[k]]_vars

\* C18: the bitmap bits of block 0 and of the inode-table blocks are set in
\* every reachable state, and no creation or removal the host can call hands
\* free_block an index that is not a data block.
C18_ReservedBlocksStayReserved ==
  /\ \A b \in ReservedBlocks : bbm[b] = 1
  /\ \A p \in PathSet, ub \in UBChoices :
        /\ ~storage_mknod(Image, p, RegMode, ub).s.badfree
        /\ ~nufs_mkdir(Image, p, 493, ub).s.badfree
        /\ ~nufs_unlink(Image, p, ub).s.badfree
        /\ ~nufs_rmdir(Image, p, ub).s.badfree

\* paths the classification is tried with: those the calls use and longer ones
LookupPaths == PathSet \cup {<<NameB, NameA>>, <<NameA, NameB, NameA>>, <<NameB, NameB>>}

\* inode n is a directory
IsDirInode(s, n) == ValidInum(n) /\ S_ISDIR(s.inodes[n].mode)

\* the slots of directory d whose stored name is name
SlotsNamed(s, d, name) == {i \in 0..(DirCount(s, d) - 1) : EntryName(s, d, i) = name}

\* the inode reached from inode 0 after the first i components of p, or -1
\* when an earlier step met a non-directory or a missing name
RECURSIVE Trail(_, _, _)
Trail(s, p, i) ==
  IF i = 0 THEN 0
  ELSE LET c == Trail(s, p, i - 1) IN
       IF c < 0 \/ ~IsDirInode(s, c) \/ SlotsNamed(s, c, p[i]) = {} THEN -1
       ELSE EntryInum(s, c, SetMin(SlotsNamed(s, c, p[i])))

\* component i of p has to be looked up inside a non-directory
NotDirAt(s, p, i) == Trail(s, p, i - 1) >= 0 /\ ~IsDirInode(s, Trail(s, p, i - 1))

\* component i of p is missing from the directory reached before it
AbsentAt(s, p, i) ==
  /\ Trail(s, p, i - 1) >= 0
  /\ IsDirInode(s, Trail(s, p, i - 1))
  /\ SlotsNamed(s, Trail(s, p, i - 1), p[i]) = {}

\* C19: lookup_path returns ENOTDIR exactly when a component has to be looked
\* up inside a non-directory, ENOENT exactly when the inodes traversed are
\* directories and a component is missing, and otherwise the inode reached.
C19_LookupClassification ==
  \A p \in LookupPaths \ {RootPath} :
     LET r == storage_lookup_path(Image, p) IN
     /\ (r = -ENOTDIR) <=> (\E i \in 1..Len(p) : NotDirAt(Image, p, i))
     /\ (r = -ENOENT) <=> (\E i \in 1..Len(p) : AbsentAt(Image, p, i))
     /\ (r >= 0) => (r = Trail(Image, p, Len(p)))

\* one path stops at a regular file, one at a missing name, one resolves
C19_Witness ==
  /\ storage_lookup_path(Image, <<NameA, NameB, NameA>>) = -ENOTDIR
  /\ IsRegularFile(Image, <<NameA, NameB>>)
  /\ storage_lookup_path(Image, <<NameB, NameA>>) = -ENOENT

\* sizes and offsets the read is tried with in every reachable state
ClampSizes == {0, 1, 2, BLOCK_SIZE, 2 * BLOCK_SIZE}
ClampOffsets == {0, 1, BLOCK_SIZE - 1, BLOCK_SIZE, BLOCK_SIZE + 1}

\* C20: read of a regular file returns 0 when offset >= inode.size and
\* otherwise min(size, inode.size - offset) bytes that lie in the file's
\* block from offset on; read of a directory returns EISDIR.
C20_ReadClamping ==
  \A p \in PathSet, size \in ClampSizes, off \in ClampOffsets :
     LET n == storage_lookup_path(Image, p)
         r == nufs_read(Image, p, size, off)
     IN
     /\ IsDirectory(Image, p) => r.rv = -EISDIR
     /\ (IsRegularFile(Image, p) /\ off >= inodes[n].size) => r.rv = 0
     /\ (IsRegularFile(Image, p) /\ off < inodes[n].size) =>
           /\ r.rv = Min(size, inodes[n].size - off)
           /\ r.data = [k \in 1..r.rv |-> ByteAt(img, inodes[n].block * BLOCK_SIZE + off + k - 1)]
           /\ off + r.rv <= BLOCK_SIZE

\* the names of the live slots of directory d in slot order, "." and ".." left out
LiveNames(s, d) ==
  LET slots == [k \in 1..DirCount(s, d) |->
                  [live |-> ByteAt(s.img, EntryOff(s, d, k - 1)) # NUL,
                   name |-> EntryName(s, d, k - 1)]]
      Listed(e) == e.live /\ ~IsDotName(e.name)
      kept == SelectSeq(slots, Listed)
  IN [k \in 1..Len(kept) |-> kept[k].name]

\* C21: readdir of a directory hands out "." and ".." once each and then
\* exactly the names of the directory's live entries other than "." and "..";
\* on the fresh image readdir("/") hands out "." and ".." only.
C21_ReaddirListing ==
  /\ \A p \in PathSet :
        IsDirectory(Image, p) =>
           /\ nufs_readdir(Image, p).rv = 0
           /\ nufs_readdir(Image, p).names =
                 <<NameDot, NameDotDot>> \o LiveNames(Image, storage_lookup_path(Image, p))
  /\ calls = 0 => nufs_readdir(Image, RootPath).names = <<NameDot, NameDotDot>>

\* "/" and "/a/": paths whose final component is empty
EmptyBasePaths == {RootPath, <<NameA, NameEmpty>>}

\* C22: mknod, mkdir, unlink, rmdir and rename given a path whose final
\* component is empty return EINVAL and leave the image as it was.
C22_EmptyBasenameRejected ==
  \A p \in EmptyBasePaths, ub \in UBChoices :
     /\ storage_mknod(Image, p, RegMode, ub) = Res(Image, -EINVAL)
     /\ (p # RootPath => nufs_mkdir(Image, p, 493, ub) = Res(Image, -EINVAL))
     /\ nufs_unlink(Image, p, ub) = Res(Image, -EINVAL)
     /\ nufs_rmdir(Image, p, ub) = Res(Image, -EINVAL)
     /\ \A q \in PathSet \ {RootPath} :
           /\ nufs_rename(Image, q, p) = Res(Image, -EINVAL)
           /\ nufs_rename(Image, p, q) = Res(Image, -EINVAL)

\* C23: when the path does not resolve, getattr, readdir, read, write,
\* truncate and rename return the error code storage_lookup_path gave for it.
C23_ErrorsPropagate ==
  \A p \in LookupPaths :
     LET e == storage_lookup_path(Image, p) IN
     e < 0 =>
        /\ nufs_getattr(Image, p).rv = e
        /\ nufs_readdir(Image, p).rv = e
        /\ \A n \in ReadSizes, off \in OffsetSet : nufs_read(Image, p, n, off).rv = e
        /\ \A buf \in BufSet, off \in OffsetSet : storage_write(Image, p, buf, off).rv = e
        /\ \A n \in TruncSizes : nufs_truncate(Image, p, n).rv = e
        /\ \A q \in PathSet : nufs_rename(Image, p, q).rv = e

\* live entries of directory d other than "." and ".." whose inode is a directory
SubdirSlots(s, d) ==
  {i \in 0..(DirCount(s, d) - 1) :
     /\ ByteAt(s.img, EntryOff(s, d, i)) # NUL
     /\ ~IsDotName(EntryName(s, d, i))
     /\ IsDirInode(s, EntryInum(s, d, i))}

\* C24: getattr reports nlink 1 for a regular file and, for a directory, 2
\* plus the number of its entries other than "." and ".." that are
\* directories; the root of the fresh image reports 2.
C24_LinkCount ==
  /\ \A p \in PathSet :
        LET st == nufs_getattr(Image, p) IN
        /\ IsRegularFile(Image, p) => (st.rv = 0 /\ st.nlink = 1)
        /\ IsDirectory(Image, p) =>
              (st.rv = 0 /\
               st.nlink = 2 + Cardinality(SubdirSlots(Image, storage_lookup_path(Image, p))))
  /\ calls = 0 => nufs_getattr(Image, RootPath).nlink = 2

\* in image t some allocated directory holds a live entry that names inode n
EntryNames(t, n) ==
  \E d \in Inums :
     /\ t.ibm[d] = 1
     /\ S_ISDIR(t.inodes[d].mode)
     /\ \E i \in 0..(DirCount(t, d) - 1) :
           ByteAt(t.img, EntryOff(t, d, i)) # NUL /\ EntryInum(t, d, i) = n

\* the intermediate images of a removal of inode n from directory d of image
\* s keep the order: nothing of n is released while d still has all its
\* entries, and no live entry names n once its bitmap bit is clear
RemovalInOrder(s, trace, d, n) ==
  \A k \in 1..Len(trace) :
     /\ (trace[k].ibm[n] # s.ibm[n] \/ trace[k].bbm # s.bbm) =>
           DirCount(trace[k], d) = DirCount(s, d) - 1
     /\ trace[k].ibm[n] = 0 => ~EntryNames(trace[k], n)

\* C25: in every image a successful unlink or rmdir passes through, the
\* parent's entry is gone before the target's block and inode are released,
\* and no live directory entry names the target once its bitmap bit is clear.
C25_RemoveOrdering ==
  \A p \in PathSet \ {RootPath}, ub \in UBChoices :
     /\ nufs_unlink(Image, p, ub).rv = 0 =>
           /\ Last(UnlinkTrace(Image, p, ub)) = nufs_unlink(Image, p, ub).s
           /\ RemovalInOrder(Image, UnlinkTrace(Image, p, ub),
                             storage_lookup_path(Image, ParentPath(p)),
                             directory_lookup(Image, storage_lookup_path(Image, ParentPath(p)),
                                              Basename(p)))
     /\ nufs_rmdir(Image, p, ub).rv = 0 =>
           /\ Last(RmdirTrace(Image, p, ub)) = nufs_rmdir(Image, p, ub).s
           /\ RemovalInOrder(Image, RmdirTrace(Image, p, ub),
                             storage_lookup_path(Image, ParentPath(p)),
                             storage_lookup_path(Image, p))

\* the (directory, name) pairs under which a live entry other than "." and
\* ".." of an allocated directory of image t names inode n
NamesOf(t, n) ==
  {dn \in Inums \X {NameEmpty, NameA, NameB} :
     /\ t.ibm[dn[1]] = 1
     /\ S_ISDIR(t.inodes[dn[1]].mode)
     /\ \E i \in 0..(DirCount(t, dn[1]) - 1) :
           /\ ByteAt(t.img, EntryOff(t, dn[1], i)) # NUL
           /\ EntryName(t, dn[1], i) = dn[2]
           /\ EntryInum(t, dn[1], i) = n}

\* nufs_rename gets as far as its directory_put and the put succeeds
RenameInserts(s, from, to) ==
  /\ storage_lookup_path(s, from) >= 0
  /\ storage_lookup_path(s, ParentPath(from)) >= 0
  /\ storage_lookup_path(s, ParentPath(to)) >= 0
  /\ directory_put(s, storage_lookup_path(s, ParentPath(to)), Basename(to),
                   storage_lookup_path(s, from)).rv >= 0

\* C26: rename inserts the new entry before it deletes the old one, so in
\* every image a rename of a named file or directory passes through a live
\* entry names the moved inode; after a successful rename the moved inode is
\* named by the new entry only.
C26_RenameOrdering ==
  \A from \in PathSet \ {RootPath}, to \in PathSet :
     LET n == storage_lookup_path(Image, from)
         trace == RenameTrace(Image, from, to)
     IN
     (NamesOf(Image, n) # {} /\ RenameInserts(Image, from, to)) =>
        /\ Last(trace) = nufs_rename(Image, from, to).s
        /\ \A k \in 1..Len(trace) : NamesOf(trace[k], n) # {}
        /\ nufs_rename(Image, from, to).rv = 0 =>
              NamesOf(Last(trace), n) =
                 {<<storage_lookup_path(Image, ParentPath(to)), Basename(to)>>}

\* the live entries of directory d of image t as a set of (name, inum) pairs
LiveEntries(t, d) ==
  {<<EntryName(t, d, i), EntryInum(t, d, i)>> :
     i \in {j \in 0..(DirCount(t, d) - 1) : ByteAt(t.img, EntryOff(t, d, j)) # NUL}}

\* C27: a rename that returns an error leaves every directory with the live
\* (name, inum) entries it had and both bitmaps as they were.
C27_FailedRenameChangesNothing ==
  \A from \in PathSet, to \in PathSet :
     LET r == nufs_rename(Image, from, to) IN
     r.rv < 0 =>
        /\ r.s.bbm = bbm
        /\ r.s.ibm = ibm
        /\ \A d \in AllocDirs : LiveEntries(r.s, d) = LiveEntries(Image, d)

\* C28: a write that ends within the first block, to a regular file whose
\* block was allocated at creation, returns its size and leaves the block
\* bitmap and the inode's block pointer as they were, whether or not a free
\* data block remains.
C28_InBlockWriteDoesNotAllocate ==
  \A p \in PathSet, buf \in BufSet, off \in OffsetSet :
     LET n == storage_lookup_path(Image, p)
         r == storage_write(Image, p, buf, off)
     IN
     (/\ IsRegularFile(Image, p)
      /\ inodes[n].block \in DataBlocks
      /\ bbm[inodes[n].block] = 1
      /\ off + Len(buf) <= BLOCK_SIZE) =>
        /\ r.rv = Len(buf)
        /\ r.s.bbm = bbm
        /\ r.s.inodes[n].block = inodes[n].block

\* C29: while mounted, lookup of "/" returns the root inode number persisted
\* in block 0 and every other path is resolved starting from that inode.
C29_RootResolution ==
  mounted =>
     /\ storage_lookup_path(Image, RootPath) = root
     /\ \A p \in LookupPaths \ {RootPath} :
           storage_lookup_path(Image, p) = Walk(Image, root, SelectSeq(p, NonEmpty))

\* names directory_delete is tried with in every reachable state
DeleteNames == {NameA, NameB, NameDot, NameDotDot, NameEmpty, <<104, 105>>}

\* the records of the live slots of directory d of image t, in slot order:
\* the cells of the name field and the inum
LiveRecords(t, d) ==
  LET slots == [k \in 1..DirCount(t, d) |-> ReadBytes(t.img, EntryOff(t, d, k - 1), DirEntSize)]
      IsLive(rec) == rec[1] # NUL
  IN SelectSeq(slots, IsLive)

\* the live slots of directory d whose name, as strcmp reads it, is name
LiveSlotsNamed(t, d, name) ==
  {i \in 0..(DirCount(t, d) - 1) :
     ByteAt(t.img, EntryOff(t, d, i)) # NUL /\ EntryName(t, d, i) = name}

\* position among the live records of the first live slot named name
FirstLivePos(t, d, name) ==
  Cardinality({i \in 0..SetMin(LiveSlotsNamed(t, d, name)) :
                 ByteAt(t.img, EntryOff(t, d, i)) # NUL})

RemoveAt(seq, k) == SubSeq(seq, 1, k - 1) \o SubSeq(seq, k + 1, Len(seq))

\* the cells of the slots 0..count-1 of directory d
DirCells(t, d) ==
  {o \in EntryOff(t, d, 0)..(EntryOff(t, d, DirCount(t, d)) - 1) : o \in 0..(ImgSize - 1)}

\* C30: a successful directory_delete(d, name) removes the first live entry
\* named name and no other, keeps every other live record and their order,
\* shrinks size by one entry and leaves the vacated last slot zeroed; it
\* succeeds exactly when a live entry has that name, and on ENOENT the image
\* is unchanged.
C30_DirectoryDeleteFrame ==
  \A d \in AllocDirs, name \in DeleteNames :
     LET r == directory_delete(Image, d, name)
         count == DirCount(Image, d)
     IN
     IF LiveSlotsNamed(Image, d, name) = {}
     THEN r = Res(Image, -ENOENT)
     ELSE
       /\ r.rv = 0
       /\ LiveRecords(r.s, d) = RemoveAt(LiveRecords(Image, d), FirstLivePos(Image, d, name))
       /\ r.s.inodes[d].size = inodes[d].size - DirEntSize
       /\ ReadBytes(r.s.img, EntryOff(Image, d, count - 1), DirEntSize) = ZeroBytes(DirEntSize)
       /\ r.s.bbm = bbm /\ r.s.ibm = ibm /\ r.s.root = root
       /\ \A n \in Inums \ {d} : r.s.inodes[n] = inodes[n]
       /\ r.s.img = [o \in DirCells(Image, d) |-> r.s.img[o]] @@ img

\* a directory with two live entries of one name and a live entry behind
\* them, so that first match, shift and order all matter
C30_Witness ==
  \E d \in AllocDirs, name \in DeleteNames :
     /\ Cardinality(LiveSlotsNamed(Image, d, name)) >= 2
     /\ \E i \in LiveSlots(d) :
           /\ \A j \in LiveSlotsNamed(Image, d, name) : j < i
           /\ EntryName(Image, d, i) # name
     /\ directory_delete(Image, d, name).rv = 0

\* C31: a mknod that returns 0 followed at once by unlink of the same path,
\* and a mkdir that returns 0 followed at once by rmdir of the same path,
\* succeed and give back both bitmaps and the parent's live (name, inum)
\* entries as they were before the creation.
C31_CreateRemoveRoundTrip ==
  \A p \in PathSet, ub \in UBChoices :
     LET parent == storage_lookup_path(Image, ParentPath(p))
         mk == storage_mknod(Image, p, RegMode, ub)
         un == nufs_unlink(mk.s, p, ub)
         md == nufs_mkdir(Image, p, 493, ub)
         rd == nufs_rmdir(md.s, p, ub)
     IN
     /\ mk.rv = 0 =>
           /\ un.rv = 0
           /\ un.s.ibm = ibm
           /\ un.s.bbm = bbm
           /\ LiveEntries(un.s, parent) = LiveEntries(Image, parent)
     /\ md.rv = 0 =>
           /\ rd.rv = 0
           /\ rd.s.ibm = ibm
           /\ rd.s.bbm = bbm
           /\ LiveEntries(rd.s, parent) = LiveEntries(Image, parent)

\* C32: the root is never destroyed: in every reachable state the root inode's
\* bitmap bit is set, its data block is marked in use and its mode is a
\* directory mode, and rmdir("/") returns an error, a freshly initialised
\* image included.
C32_RootNeverDestroyed ==
  /\ ibm[0] = 1
  /\ inodes[0].block \in 0..(BLOCK_COUNT - 1)
  /\ bbm[inodes[0].block] = 1
  /\ S_ISDIR(inodes[0].mode)
  /\ mounted => \A ub \in UBChoices : nufs_rmdir(Image, RootPath, ub).rv < 0

\* C33: in every reachable state no data block is the block field of two
\* different allocated inodes, and every allocated inode that is a directory
\* or a regular file has a block field naming a data-area block whose bitmap
\* bit is set.
C33_NoBlockSharing ==
  /\ \A i, j \in 0..(INODE_COUNT - 1) :
        (i # j /\ ibm[i] = 1 /\ ibm[j] = 1 /\ inodes[i].block \in DataBlocks)
           => inodes[i].block # inodes[j].block
  /\ \A i \in 0..(INODE_COUNT - 1) :
        (ibm[i] = 1 /\ (S_ISDIR(inodes[i].mode) \/ S_ISREG(inodes[i].mode)))
           => /\ inodes[i].block \in DataBlocks
              /\ bbm[inodes[i].block] = 1

\* C34: a file that has just been created by mknod has had no byte written to
\* it, so after truncate grows it every byte that a read of it returns is
\* zero, whatever was written to other files or to files unlinked before.
C34_NoDataLeak ==
  mounted =>
    \A p \in PathSet, ub \in UBChoices, sz \in TruncSizes,
       off \in OffsetSet, n \in ReadSizes :
       LET mk == storage_mknod(Image, p, RegMode, ub)
           tr == nufs_truncate(mk.s, p, sz)
           rd == nufs_read(tr.s, p, n, off)
       IN
       (mk.rv = 0 /\ tr.rv = 0 /\ rd.rv > 0) =>
          \A k \in 1..rd.rv : rd.data[k] = 0

\* ------------------------------------------------------------ two threads in storage_mknod
\* fuse_main runs its loop multi-threaded unless the host is started with -s;
\* the code takes no lock, so the reads and writes of two calls may interleave.
\* Each thread runs storage_mknod one shared-memory access at a time: the
\* checks, the scan of the inode bitmap, the setting of the bit and the
\* record, the scan of the block bitmap, the setting of its bit, the scan of
\* the parent's slots, the writing of the slot.

\* the names the threads create, one each, all in the root: "a", "b", ...
RacePaths == [t \in Threads |-> <<<<NameA[1] + t - 1>>>>]

\* the root with no cleared slot left and room for one more entry
RootAppendImage ==
  LET s0 == storage_init(FreshImage).s
      s1 == nufs_mkdir(s0, <<<<99>>>>, 493, -1).s
      s2 == nufs_rmdir(s1, <<<<99>>>>, -1).s
      s3 == storage_mknod(s2, <<<<99>>>>, RegMode, -1).s
  IN storage_mknod(s3, <<<<100>>>>, RegMode, -1).s

\* an image with a single free block
OneBlockImage ==
  LET s0 == storage_init(FreshImage).s
      s1 == storage_mknod(s0, <<<<99>>>>, RegMode, -1).s
  IN storage_write(s1, <<<<99>>>>, <<104, 105>>, BLOCK_SIZE - 1).s

\* the images the two calls start from
RaceImages == {storage_init(FreshImage).s, RootAppendImage, OneBlockImage}

InitRace ==
  \E s \in RaceImages :
     /\ bbm = s.bbm
     /\ ibm = s.ibm
     /\ inodes = s.inodes
     /\ img = s.img
     /\ root = s.root
     /\ mounted = TRUE
     /\ calls = 0
     /\ thr = [t \in Threads |-> [IdleThread EXCEPT !.pc = "start", !.path = RacePaths[t]]]
     /\ serial \in BOOLEAN

\* a thread may take its next step; under a serializing host only while no
\* other thread is inside a call
CanRun_nolock(t) == thr[t].pc \notin {"idle", "done"}

CanRun(t) ==
  /\ thr[t].pc \notin {"idle", "done"}
  /\ serial => \A u \in Threads \ {t} : thr[u].pc \in {"idle", "start", "done"}

RaceStep(t, s, th) ==
  /\ bbm' = s.bbm
  /\ ibm' = s.ibm
  /\ inodes' = s.inodes
  /\ img' = s.img
  /\ thr' = [thr EXCEPT ![t] = th]
  /\ UNCHANGED <<root, mounted, calls, serial>>

Finish(th, rv) == [th EXCEPT !.pc = "done", !.rv = rv]

\* the rollback of storage_mknod after directory_put failed
PutRollback(s, inum, ub) ==
  free_inode(free_block(s, s.inodes[inum].block, ub), inum, ub)

\* storage_mknod up to the existence check
MknodLookup(t) ==
  /\ CanRun(t)
  /\ thr[t].pc = "start"
  /\ LET th == thr[t]
         parent_inum == storage_lookup_path(Image, ParentPath(th.path))
     IN
     RaceStep(t, Image,
       IF parent_inum < 0 THEN Finish(th, parent_inum)
       ELSE IF ~ValidInum(parent_inum) \/ ~S_ISDIR(inodes[parent_inum].mode)
       THEN Finish(th, -ENOTDIR)
       ELSE IF directory_lookup(Image, parent_inum, Basename(th.path)) >= 0
       THEN Finish(th, -EEXIST)
       ELSE [th EXCEPT !.pc = "ai_scan", !.parent = parent_inum])

\* alloc_inode: the loop finds the first clear bit
AllocInodeScan(t) ==
  /\ CanRun(t)
  /\ thr[t].pc = "ai_scan"
  /\ LET i == alloc_inode(Image).rv IN
     RaceStep(t, Image,
       IF i < 0 THEN Finish(thr[t], -ENOSPC)
       ELSE [thr[t] EXCEPT !.pc = "ai_set", !.inum = i])

\* alloc_inode: the bit is set and the record initialised; storage_mknod
\* stores mode and size
AllocInodeSet(t) ==
  /\ CanRun(t)
  /\ thr[t].pc = "ai_set"
  /\ LET i == thr[t].inum IN
     RaceStep(t,
       [Image EXCEPT !.ibm[i] = 1,
                     !.inodes[i] = [ZeroInode EXCEPT !.inum = i, !.refs = 1,
                                                     !.mode = RegMode]],
       [thr[t] EXCEPT !.pc = "ab_scan"])

\* alloc_block: the scan finds the first clear bit; on failure storage_mknod
\* stores -1 in node->block and calls free_inode
AllocBlockScan(t, ub) ==
  /\ CanRun(t)
  /\ thr[t].pc = "ab_scan"
  /\ LET b == alloc_block(Image).rv
         i == thr[t].inum
     IN
     IF b < 0
     THEN RaceStep(t, free_inode([Image EXCEPT !.inodes[i].block = -1], i, ub),
                   Finish(thr[t], -ENOSPC))
     ELSE RaceStep(t, Image, [thr[t] EXCEPT !.pc = "ab_set", !.block = b])

\* alloc_block: the bit is set and the number stored in node->block
AllocBlockSet(t) ==
  /\ CanRun(t)
  /\ thr[t].pc = "ab_set"
  /\ RaceStep(t,
       [Image EXCEPT !.bbm[thr[t].block] = 1,
                     !.inodes[thr[t].inum].block = thr[t].block],
       [thr[t] EXCEPT !.pc = "put_scan"])

\* directory_put: the type check and the search for a cleared slot, else the
\* end of the array
PutScan(t, ub) ==
  /\ CanRun(t)
  /\ thr[t].pc = "put_scan"
  /\ LET th == thr[t]
         d == th.parent
         count == DirCount(Image, d)
         holes == {i \in 0..(count - 1) : ByteAt(img, EntryOff(Image, d, i)) = NUL}
     IN
     IF ~S_ISDIR(inodes[d].mode)
     THEN RaceStep(t, PutRollback(Image, th.inum, ub), Finish(th, -ENOTDIR))
     ELSE IF holes # {}
     THEN RaceStep(t, Image, [th EXCEPT !.pc = "put_write", !.slot = SetMin(holes)])
     ELSE IF count >= BLOCK_SIZE \div DirEntSize
     THEN RaceStep(t, PutRollback(Image, th.inum, ub), Finish(th, -ENOSPC))
     ELSE RaceStep(t, Image, [th EXCEPT !.pc = "put_write", !.slot = count,
                                        !.append = TRUE])

\* directory_put: the entry is written; an appended entry adds to dir->size
PutWrite(t) ==
  /\ CanRun(t)
  /\ thr[t].pc = "put_write"
  /\ LET th == thr[t]
         d == th.parent
         s1 == [Image EXCEPT !.img = WriteBytes(img, EntryOff(Image, d, th.slot),
                                                PutCells(Basename(th.path), th.inum))]
     IN
     RaceStep(t, IF th.append THEN [s1 EXCEPT !.inodes[d].size = @ + DirEntSize] ELSE s1,
              Finish(th, 0))

NextRace ==
  \/ \E t \in Threads : MknodLookup(t)
  \/ \E t \in Threads : AllocInodeScan(t)
  \/ \E t \in Threads : AllocInodeSet(t)
  \/ \E t \in Threads, ub \in UBChoices : AllocBlockScan(t, ub)
  \/ \E t \in Threads : AllocBlockSet(t)
  \/ \E t \in Threads, ub \in UBChoices : PutScan(t, ub)
  \/ \E t \in Threads : PutWrite(t)

\* two mknod calls on two host threads
SpecRace == InitRace /\ [][NextRace]_vars

\* both calls have returned 0
BothDoneOk == \A t \in Threads : thr[t].pc = "done" /\ thr[t].rv = 0

\* the entry of thread t is in its parent and names the inode it was handed
EntryPresent(t) ==
  directory_lookup(Image, thr[t].parent, Basename(thr[t].path)) = thr[t].inum

\* C35: when each mknod call runs to completion before the next starts, the
\* calls for different names that all return 0 were handed distinct inode
\* numbers and distinct blocks, and all their entries are present in the
\* directory; without the serialization this fails.
C35_SerialMknodDistinct ==
  (serial /\ BothDoneOk) =>
     /\ \A t, u \in Threads :
           t # u => /\ thr[t].inum # thr[u].inum
                    /\ thr[t].block # thr[u].block
     /\ \A t \in Threads : EntryPresent(t)

C35_Witness == serial /\ BothDoneOk /\ thr[1].inum # thr[2].inum

\* the calls interleaved: the same inode, the same block, or a lost entry
RaceSameInode == ~serial /\ BothDoneOk /\ thr[1].inum = thr[2].inum
RaceSameBlock == ~serial /\ BothDoneOk /\ thr[1].block = thr[2].block
RaceLostEntry ==
  ~serial /\ BothDoneOk /\ thr[1].inum # thr[2].inum /\ \E t \in Threads : ~EntryPresent(t)

=============================================================================
